---- MODULE Spec2Model ----
(***************************************************************************)
(* A model of the AI image generator web application (src/app.py,          *)
(* src/models.py, src/config.py): the relational store (users, user_stats, *)
(* images), the storage backend selector, the generation gateway and the   *)
(* session-authenticated HTTP handlers.  Handlers that touch the database  *)
(* at more than one point are split at those points, so that concurrent    *)
(* requests interleave where the WSGI threads of the program interleave.   *)
(***************************************************************************)
EXTENDS Integers, Sequences, FiniteSets, TLC

\* ------------------------------------------------------------------ bounds
\* The generation traffic a run carries: each request that reaches the saving
\* loop counts one, and so does each entry of the result it was given.
MaxWork == 3

\* ------------------------------------------------------------ input alphabets
Sessions == {"s1", "s2"}
Usernames == {"alice", "bob"}
Emails == {"alice@x.com", "bob@x.com"}
Passwords == {"pw123", "hunter2"}
Salts == {"salt"}
Prompts == {"a cat"}
Empty == ""
None == <<>>
Anonymous == 0

\* ------------------------------------------------------------ configuration
\* Config (src/config.py) and the module-level s3_client of src/app.py: fixed
\* at process start.  S3_BUCKET_NAME and CLOUDFRONT_DOMAIN are a name or Empty.
Configs ==
    { [USE_S3 |-> FALSE, s3_client |-> TRUE,  S3_BUCKET_NAME |-> Empty,    CLOUDFRONT_DOMAIN |-> Empty],
      [USE_S3 |-> TRUE,  s3_client |-> TRUE,  S3_BUCKET_NAME |-> "bucket", CLOUDFRONT_DOMAIN |-> "cdn.example"],
      [USE_S3 |-> TRUE,  s3_client |-> TRUE,  S3_BUCKET_NAME |-> "bucket", CLOUDFRONT_DOMAIN |-> Empty],
      [USE_S3 |-> TRUE,  s3_client |-> TRUE,  S3_BUCKET_NAME |-> Empty,    CLOUDFRONT_DOMAIN |-> Empty],
      [USE_S3 |-> TRUE,  s3_client |-> FALSE, S3_BUCKET_NAME |-> "bucket", CLOUDFRONT_DOMAIN |-> Empty] }

VARIABLES
    cfg,         \* Config + s3_client
    users,       \* table users: set of rows
    user_stats,  \* table user_stats: set of rows
    images,      \* table images: set of rows
    media,       \* files in MEDIA_FOLDER
    bucket,      \* keys in the S3 bucket
    session,     \* session cookie of each client: user id or Anonymous
    pc,          \* where each client's request in flight stands
    local,       \* the locals and pending transaction of that request
    cli,         \* create-admin: id of the user row committed, stats not yet
    nreq,        \* generation requests that reached the saving loop (uuid supply)
    nentries,    \* entries of the results those requests were given
    last,        \* the request step just taken and its response
    recorded,    \* what generate_image sent to the metrics emitter in that step
    credentials, \* history: <<username, password>> of every committed user row
    committed    \* history: per user id, committed generations and images saved

vars == <<cfg, users, user_stats, images, media, bucket, session, pc, local,
          cli, nreq, nentries, last, recorded, credentials, committed>>

db == <<users, user_stats, images>>

\* ------------------------------------------------------------------ helpers
RECURSIVE SeqsUpTo(_, _)
SeqsUpTo(S, n) ==
    IF n <= 0 THEN {<<>>}
    ELSE LET shorter == SeqsUpTo(S, n - 1)
         IN  shorter \cup {Append(q, x) : q \in {r \in shorter : Len(r) = n - 1}, x \in S}

Range(q) == {q[i] : i \in 1..Len(q)}

\* ---------------------------------------------------------------- passwords
\* bcrypt.generate_password_hash / check_password_hash: a salted one-way
\* digest; the check recomputes the digest under the stored salt.
Digest(salt, password) == <<"bcrypt", salt, password>>

GeneratePasswordHash(salt, password) ==
    [salt |-> salt, digest |-> Digest(salt, password)]

CheckPasswordHash(pw_hash, password) ==
    Digest(pw_hash.salt, password) = pw_hash.digest

\* ------------------------------------------------------------------- tables
UserRow(id, username, email, pw_hash, is_admin) ==
    [id |-> id, username |-> username, email |-> email,
     password_hash |-> pw_hash, is_admin |-> is_admin]

StatsRow(user_id, total_generations, total_images, last_generation) ==
    [user_id |-> user_id, total_generations |-> total_generations,
     total_images |-> total_images, last_generation |-> last_generation]

ImageRow(user_id, prompt, filename, s3_key, cloudfront_url) ==
    [user_id |-> user_id, prompt |-> prompt, filename |-> filename,
     s3_key |-> s3_key, cloudfront_url |-> cloudfront_url]

\* AUTO_INCREMENT primary key of users (rows are never deleted).
NextUserId == Cardinality(users) + 1

\* User.query.filter_by(...).first(): the matching rows (at most one).
UsersByUsername(username) == {u \in users : u.username = username}
UsersByEmail(email) == {u \in users : u.email = email}
UserById(id) == {u \in users : u.id = id}
StatsOf(user_id) == {r \in user_stats : r.user_id = user_id}

\* unique=True on users.username and users.email: the INSERT is refused.
UserUniqueViolationNone(row) == FALSE
UserUniqueViolation(row) ==
    \E u \in users : u.username = row.username \/ u.email = row.email

\* unique=True on user_stats.user_id.
StatsUniqueViolation(user_id) == StatsOf(user_id) # {}

\* Image.to_dict: the descriptor returned to the client.
MediaUrl(filename) == <<"/media/", filename>>

ToDict(img) ==
    [prompt |-> img.prompt, filename |-> img.filename,
     url |-> IF img.cloudfront_url # None THEN img.cloudfront_url
             ELSE MediaUrl(img.filename)]

\* ------------------------------------------------- storage backend selector
S3Key(filename) == <<"images/", filename>>

GetCloudfrontUrl(s3_key) ==
    IF cfg.CLOUDFRONT_DOMAIN # Empty
    THEN <<"https://", cfg.CLOUDFRONT_DOMAIN, "/", s3_key>>
    ELSE <<"https://", cfg.S3_BUCKET_NAME, ".s3.", "region", ".amazonaws.com/", s3_key>>

\* upload_to_s3: what it returns (a single None, or a pair) and whether the
\* object was put.  put is the outcome of s3_client.put_object.
UploadToS3(filename, put) ==
    IF ~cfg.s3_client \/ cfg.S3_BUCKET_NAME = Empty
    THEN [pair |-> FALSE, s3_key |-> None, cloudfront_url |-> None, stored |-> FALSE]
    ELSE IF put = "ok"
    THEN [pair |-> TRUE, s3_key |-> S3Key(filename),
          cloudfront_url |-> GetCloudfrontUrl(S3Key(filename)), stored |-> TRUE]
    ELSE [pair |-> TRUE, s3_key |-> None, cloudfront_url |-> None, stored |-> FALSE]

Saved(s3_key, image_url, in_media, in_bucket) ==
    [s3_key |-> s3_key, image_url |-> image_url,
     in_media |-> in_media, in_bucket |-> in_bucket]

NotSaved == Saved(None, None, FALSE, FALSE)

\* The part save_image_from_url and save_base64_image share once the bytes
\* are in hand: upload when USE_S3, else (or when the upload gave no key)
\* write under MEDIA_FOLDER.  Unpacking a single None raises, and so does a
\* failed write; the enclosing except returns (None, None).
PersistBytesIgnoreWriteError(filename, put, disk) ==
    LET up == UploadToS3(filename, put)
    IN  IF cfg.USE_S3 /\ ~up.pair THEN NotSaved
        ELSE IF cfg.USE_S3 /\ up.s3_key # None
        THEN Saved(up.s3_key, up.cloudfront_url, FALSE, TRUE)
        ELSE Saved(filename, MediaUrl(filename), disk = "ok", FALSE)
PersistBytes(filename, put, disk) ==
    LET up == UploadToS3(filename, put)
    IN  IF cfg.USE_S3 /\ ~up.pair THEN NotSaved
        ELSE IF cfg.USE_S3 /\ up.s3_key # None
        THEN Saved(up.s3_key, up.cloudfront_url, FALSE, TRUE)
        ELSE IF disk = "ok"
        THEN Saved(filename, MediaUrl(filename), TRUE, FALSE)
        ELSE NotSaved

\* save_image_from_url: requests.get, status 200 required.
SaveImageFromUrl(entry, filename) ==
    IF entry.fetch = "ok" THEN PersistBytes(filename, entry.put, entry.disk)
    ELSE NotSaved

\* save_base64_image: strip a data-URI prefix, b64decode.
SaveBase64Image(entry, filename) ==
    IF entry.fetch = "ok" THEN PersistBytes(filename, entry.put, entry.disk)
    ELSE NotSaved

\* ------------------------------------------------------- generation gateway
\* One entry of the result's data list, with the outcomes of the external
\* calls made while saving it: fetch (the download or the decode), put
\* (put_object), disk (the write under MEDIA_FOLDER).
Entry(shape, fetch, put, disk) ==
    [shape |-> shape, fetch |-> fetch, put |-> put, disk |-> disk]

Entries ==
    {Entry("other", "-", "-", "-")}
    \cup {Entry(sh, "fail", "-", "-") : sh \in {"url", "b64_json"}}
    \cup {Entry(sh, "ok", p, d) : sh \in {"url", "b64_json"},
                                  p \in {"ok", "raise"}, d \in {"ok", "raise"}}

\* The reply to POST /v1/images/generations: no reply at all (the call
\* raised), or a status and a JSON object (its keys, and its data list).
Reply(raised, status, keys, data) ==
    [raised |-> raised, status |-> status, keys |-> keys, data |-> data]

Replies(max_entries) ==
    {Reply(TRUE, 0, {}, <<>>), Reply(FALSE, 500, {"error"}, <<>>),
     Reply(FALSE, 200, {}, <<>>)}
    \cup {Reply(FALSE, 200, {"data"}, d) : d \in SeqsUpTo(Entries, max_entries)}

\* What the caller of requests.post sees: an exception, or the status.
Answer(reply) ==
    IF reply.raised THEN "raised" ELSE IF reply.status = 200 THEN "200" ELSE "500"

\* response.json(), and the None generate_image returns on failure.
Json(reply) == [is_none |-> FALSE, keys |-> reply.keys, data |-> reply.data]
NoResult == [is_none |-> TRUE, keys |-> {}, data |-> <<>>]

\* generate_image: the JSON of a 200 reply, None otherwise.
GenerateImageNoStatusCheck(reply) ==
    IF reply.raised THEN NoResult ELSE Json(reply)
GenerateImage(reply) ==
    IF reply.raised THEN NoResult
    ELSE IF reply.status = 200 THEN Json(reply)
    ELSE NoResult

\* The calls generate_image makes to the metrics emitter (cloudwatch): the
\* latency once requests.post has returned, an error count when the status is
\* not 200 or when anything raised.
Metric(name, dimension) == [name |-> name, dimension |-> dimension]

GenerateImageRecorded(reply) ==
    IF reply.raised THEN <<Metric("ApplicationErrors", "APIGeneration")>>
    ELSE IF reply.status = 200 THEN <<Metric("APIResponseTime", "-")>>
    ELSE <<Metric("APIResponseTime", "-"), Metric("ApplicationErrors", "APIGeneration")>>

\* "not result": None and the empty object are both falsy.
Falsy(result) == result.is_none \/ result.keys = {}

\* f"{timestamp}_{uuid4().hex[:8]}_{i+1}.png": unique per request and entry.
Filename(req, i) == <<"png", req, i>>

\* ---------------------------------------------------------------- responses
\* What a step answers: the endpoint, the client, the status (0 while the
\* handler is still running), what the answer is, the request fields the
\* handler read, the answer's data, and what the generation API answered to
\* each call the step made to it.
Response(op, s, status, kind, req, body, gateway) ==
    [op |-> op, s |-> s, status |-> status, kind |-> kind, req |-> req,
     body |-> body, gateway |-> gateway]

NoLocal == [op |-> "none"]

Finish(s) ==
    /\ pc' = [pc EXCEPT ![s] = "idle"]
    /\ local' = [local EXCEPT ![s] = NoLocal]

\* A handler that answers at once and writes nothing; calls is what its
\* call of generate_image, if it made one, sent to the metrics emitter.
Respond(resp, calls) ==
    /\ last' = resp
    /\ recorded' = calls
    /\ UNCHANGED <<cfg, users, user_stats, images, media, bucket, session, pc,
                   local, cli, nreq, nentries, credentials, committed>>

ReadOnly(resp) == Respond(resp, <<>>)

\* @login_required (flask_login, login_view = 'login'): the endpoints that
\* carry the decorator; an anonymous client is redirected to login?next=path.
ProtectedButApiGenerate ==
    {"logout", "dashboard", "generate", "gallery", "admin", "api_models",
     "api_user_stats", "serve_media", "api_storage_info"}
Protected ==
    {"logout", "dashboard", "generate", "gallery", "admin", "api_models",
     "api_generate", "api_user_stats", "serve_media", "api_storage_info"}

IsAuthenticated(s) == session[s] # Anonymous

Unauthorized(op, s) == op \in Protected /\ ~IsAuthenticated(s)

RedirectToLogin(op, s, req) ==
    ReadOnly(Response(op, s, 302, "login_required", req, [next |-> op], <<>>))

\* ------------------------------------------------------------------ register
register(s, method, username, email, password) ==
    /\ pc[s] = "idle"
    /\ LET req == [method |-> method, username |-> username, email |-> email]
       IN  IF IsAuthenticated(s)
           THEN ReadOnly(Response("register", s, 302, "dashboard", req, None, <<>>))
           ELSE IF method = "GET"
           THEN ReadOnly(Response("register", s, 200, "register.html", req, None, <<>>))
           ELSE IF username = Empty \/ email = Empty \/ password = Empty
           THEN ReadOnly(Response("register", s, 200, "All fields are required", req, None, <<>>))
           ELSE IF UsersByUsername(username) # {}
           THEN ReadOnly(Response("register", s, 200, "Username already exists", req, None, <<>>))
           ELSE IF UsersByEmail(email) # {}
           THEN ReadOnly(Response("register", s, 200, "Email already registered", req, None, <<>>))
           ELSE \E salt \in Salts :
                /\ pc' = [pc EXCEPT ![s] = "register_user"]
                /\ local' = [local EXCEPT ![s] =
                       [op |-> "register", password |-> password, req |-> req,
                        new_user |-> UserRow(0, username, email,
                                             GeneratePasswordHash(salt, password), FALSE)]]
                /\ last' = Response("register", s, 0, "add user", req, None, <<>>)
                /\ recorded' = <<>>
                /\ UNCHANGED <<cfg, users, user_stats, images, media, bucket,
                               session, cli, nreq, nentries, credentials, committed>>

\* db.session.add(new_user); db.session.commit()  (ok: the database answers)
register_commit_user(s, ok) ==
    /\ pc[s] = "register_user"
    /\ LET l == local[s]
           row == [l.new_user EXCEPT !.id = NextUserId]
       IN  IF ok /\ ~UserUniqueViolation(row)
           THEN /\ users' = users \cup {row}
                /\ credentials' = credentials \cup {<<row.username, l.password>>}
                /\ pc' = [pc EXCEPT ![s] = "register_stats"]
                /\ local' = [local EXCEPT ![s] = [l EXCEPT !.new_user = row]]
                /\ last' = Response("register", s, 0, "add stats", l.req, None, <<>>)
                /\ recorded' = <<>>
                /\ UNCHANGED <<cfg, user_stats, images, media, bucket, session,
                               cli, nreq, nentries, committed>>
           ELSE \* except: db.session.rollback()
                /\ Finish(s)
                /\ last' = Response("register", s, 200, "An error occurred", l.req, None, <<>>)
                /\ recorded' = <<>>
                /\ UNCHANGED <<cfg, users, user_stats, images, media, bucket,
                               session, cli, nreq, nentries, credentials, committed>>

\* The client's session once register has succeeded: register never calls
\* login_user; it flashes "Registration successful! Please log in." and
\* redirects to the login screen, so the cookie is what it was.
SessionAfterRegisterLoginUser(s, uid) == uid
SessionAfterRegister(s, uid) == session[s]

\* user_stats = UserStats(user_id=new_user.id); add; commit; redirect to login
register_commit_stats(s, ok) ==
    /\ pc[s] = "register_stats"
    /\ LET l == local[s]
           uid == l.new_user.id
       IN  IF ok /\ ~StatsUniqueViolation(uid)
           THEN /\ user_stats' = user_stats \cup {StatsRow(uid, 0, 0, "NULL")}
                /\ session' = [session EXCEPT ![s] = SessionAfterRegister(s, uid)]
                /\ last' = Response("register", s, 302, "Registration successful", l.req, None, <<>>)
           ELSE /\ user_stats' = user_stats
                /\ session' = session
                /\ last' = Response("register", s, 200, "An error occurred", l.req, None, <<>>)
    /\ Finish(s)
    /\ recorded' = <<>>
    /\ UNCHANGED <<cfg, users, images, media, bucket, cli, nreq, nentries,
                   credentials, committed>>

\* --------------------------------------------------------------------- login
\* "user and bcrypt.check_password_hash(user.password_hash, password)"
AuthenticatesAnyPassword(found, password) == found # {}
Authenticates(found, password) ==
    found # {} /\ \A u \in found : CheckPasswordHash(u.password_hash, password)

login(s, method, username, password, next) ==
    /\ pc[s] = "idle"
    /\ LET req == [method |-> method, username |-> username,
                   password |-> password, next |-> next]
           user == UsersByUsername(username)
       IN  IF IsAuthenticated(s)
           THEN ReadOnly(Response("login", s, 302, "dashboard", req, None, <<>>))
           ELSE IF method = "GET"
           THEN ReadOnly(Response("login", s, 200, "login.html", req, None, <<>>))
           ELSE IF Authenticates(user, password)
           THEN /\ session' = [session EXCEPT ![s] = (CHOOSE u \in user : TRUE).id]
                /\ last' = Response("login", s, 302,
                                    IF next # Empty THEN next ELSE "dashboard",
                                    req, None, <<>>)
                /\ recorded' = <<>>
                /\ UNCHANGED <<cfg, users, user_stats, images, media, bucket, pc,
                               local, cli, nreq, nentries, credentials, committed>>
           ELSE ReadOnly(Response("login", s, 200, "Invalid username or password", req, None, <<>>))

logout(s) ==
    /\ pc[s] = "idle"
    /\ IF Unauthorized("logout", s) THEN RedirectToLogin("logout", s, None)
       ELSE /\ session' = [session EXCEPT ![s] = Anonymous]
            /\ last' = Response("logout", s, 302, "login", None, None, <<>>)
            /\ recorded' = <<>>
            /\ UNCHANGED <<cfg, users, user_stats, images, media, bucket, pc,
                           local, cli, nreq, nentries, credentials, committed>>

\* ------------------------------------------------------------ read-only views
CurrentUser(s) == UserById(session[s])

index(s) ==
    /\ pc[s] = "idle"
    /\ ReadOnly(Response("index", s, 302,
                         IF IsAuthenticated(s) THEN "generate" ELSE "login",
                         None, None, <<>>))

dashboard(s) ==
    /\ pc[s] = "idle"
    /\ IF Unauthorized("dashboard", s) THEN RedirectToLogin("dashboard", s, None)
       ELSE ReadOnly(Response("dashboard", s, 200, "dashboard.html", None,
                [stats |-> StatsOf(session[s]),
                 recent_images |-> {i \in images : i.user_id = session[s]}], <<>>))

generate(s) ==
    /\ pc[s] = "idle"
    /\ IF Unauthorized("generate", s) THEN RedirectToLogin("generate", s, None)
       ELSE ReadOnly(Response("generate", s, 200, "index.html", None, None, <<>>))

gallery(s) ==
    /\ pc[s] = "idle"
    /\ IF Unauthorized("gallery", s) THEN RedirectToLogin("gallery", s, None)
       ELSE ReadOnly(Response("gallery", s, 200, "gallery.html", None,
                [images |-> {i \in images : i.user_id = session[s]}], <<>>))

\* get_available_models: the API's list, or an empty list on any failure.
api_models(s, listed) ==
    /\ pc[s] = "idle"
    /\ IF Unauthorized("api_models", s) THEN RedirectToLogin("api_models", s, None)
       ELSE ReadOnly(Response("api_models", s, 200, "json", None,
                [data |-> IF listed THEN <<"img3">> ELSE <<>>], <<>>))

\* The JSON of /api/user/stats: the row's counters, zeros when there is no row.
StatsJson(user_id) ==
    LET stats == StatsOf(user_id)
    IN  IF stats # {}
        THEN LET r == CHOOSE r \in stats : TRUE
             IN  [total_generations |-> r.total_generations,
                  total_images |-> r.total_images,
                  last_generation |-> r.last_generation]
        ELSE [total_generations |-> 0, total_images |-> 0,
              last_generation |-> "NULL"]

api_user_stats(s) ==
    /\ pc[s] = "idle"
    /\ IF Unauthorized("api_user_stats", s) THEN RedirectToLogin("api_user_stats", s, None)
       ELSE ReadOnly(Response("api_user_stats", s, 200, "json", None,
                              StatsJson(session[s]), <<>>))

serve_media(s, filename) ==
    /\ pc[s] = "idle"
    /\ IF Unauthorized("serve_media", s)
       THEN RedirectToLogin("serve_media", s, [filename |-> filename])
       ELSE ReadOnly(Response("serve_media", s,
                IF filename \in media THEN 200 ELSE 404, "file",
                [filename |-> filename], None, <<>>))

api_storage_info(s) ==
    /\ pc[s] = "idle"
    /\ IF Unauthorized("api_storage_info", s)
       THEN RedirectToLogin("api_storage_info", s, None)
       ELSE ReadOnly(Response("api_storage_info", s, 200, "json", None,
                [use_s3 |-> cfg.USE_S3, s3_configured |-> cfg.s3_client,
                 bucket_name |-> IF cfg.USE_S3 THEN cfg.S3_BUCKET_NAME ELSE Empty], <<>>))

\* --------------------------------------------------------------------- admin
\* "if not current_user.is_admin"
IsAdminAnyUser(s) == TRUE
IsAdmin(s) == \E u \in CurrentUser(s) : u.is_admin

RECURSIVE SumGenerations(_)
SumGenerations(rows) ==
    IF rows = {} THEN 0
    ELSE LET r == CHOOSE r \in rows : TRUE
         IN  r.total_generations + SumGenerations(rows \ {r})

admin(s) ==
    /\ pc[s] = "idle"
    /\ IF Unauthorized("admin", s) THEN RedirectToLogin("admin", s, None)
       ELSE IF ~IsAdmin(s)
       THEN ReadOnly(Response("admin", s, 302, "Access denied", None, None, <<>>))
       ELSE ReadOnly(Response("admin", s, 200, "admin.html", None,
                [total_users |-> Cardinality(users),
                 total_images |-> Cardinality(images),
                 total_generations |-> SumGenerations(user_stats),
                 recent_users |-> users, recent_images |-> images], <<>>))

\* -------------------------------------------------------------- api_generate
\* The JSON body of POST /api/generate as request.get_json() gives it: None
\* (the body is the JSON null), or an object whose prompt is data.get('prompt',
\* ''): Empty when the key is absent or the string is empty.
Body(kind, prompt) == [kind |-> kind, prompt |-> prompt]
Bodies == {Body("null", Empty), Body("object", Empty)}
          \cup {Body("object", p) : p \in Prompts}

\* The saving of one entry of result['data'] (the if/elif/else of the loop).
SaveEntry(entry, filename) ==
    IF entry.shape = "url" THEN SaveImageFromUrl(entry, filename)
    ELSE IF entry.shape = "b64_json" THEN SaveBase64Image(entry, filename)
    ELSE NotSaved

\* new_image = Image(...) for an entry saved with outcome r.
NewImage(user_id, prompt, filename, r) ==
    ImageRow(user_id, prompt, filename,
             IF cfg.USE_S3 THEN r.s3_key ELSE None,
             IF cfg.USE_S3 THEN r.image_url ELSE None)

\* The loop over enumerate(result.get('data', [])) from entry i on: the Image
\* objects added to the session, in order (saved_images holds their to_dict).
RECURSIVE NewImages(_, _, _, _, _)
NewImages(user_id, prompt, req, data, i) ==
    IF i > Len(data) THEN <<>>
    ELSE LET r == SaveEntry(data[i], Filename(req, i))
         IN  (IF r.image_url # None
              THEN <<NewImage(user_id, prompt, Filename(req, i), r)>>
              ELSE <<>>) \o NewImages(user_id, prompt, req, data, i + 1)

WrittenToMedia(req, data) ==
    {Filename(req, i) : i \in {j \in 1..Len(data) :
                                 SaveEntry(data[j], Filename(req, j)).in_media}}

WrittenToBucket(req, data) ==
    {S3Key(Filename(req, i)) : i \in {j \in 1..Len(data) :
                                 SaveEntry(data[j], Filename(req, j)).in_bucket}}

\* The stats row the request writes: the row read by the query updated in
\* memory, or a new row when the query found none.
RecordGenerationPerImage(found, user_id, image_count) ==
    IF found # {}
    THEN LET r == CHOOSE r \in found : TRUE
         IN  StatsRow(user_id, r.total_generations + image_count,
                      r.total_images + image_count, "set")
    ELSE StatsRow(user_id, image_count, image_count, "set")
RecordGeneration(found, user_id, image_count) ==
    IF found # {}
    THEN LET r == CHOOSE r \in found : TRUE
         IN  StatsRow(user_id, r.total_generations + 1,
                      r.total_images + image_count, "set")
    ELSE StatsRow(user_id, 1, image_count, "set")

\* From the top of the handler to the query of the stats row: validation, the
\* gateway call, the saving loop (which writes to storage), the query.
api_generate(s, body, reply) ==
    /\ pc[s] = "idle"
    /\ LET req == [body |-> body] IN
       IF Unauthorized("api_generate", s)
       THEN RedirectToLogin("api_generate", s, req)
       ELSE IF body.kind = "null"   \* data.get raises; except: rollback, 500
       THEN ReadOnly(Response("api_generate", s, 500, "Server error", req,
                              [id |-> 0, images |-> <<>>], <<>>))
       ELSE IF body.prompt = Empty
       THEN ReadOnly(Response("api_generate", s, 400, "Prompt is required", req, None, <<>>))
       ELSE LET result == GenerateImage(reply) IN
            IF Falsy(result)
            THEN Respond(Response("api_generate", s, 500, "Failed to generate image",
                                  req, None, <<Answer(reply)>>),
                         GenerateImageRecorded(reply))
            ELSE /\ nreq + nentries + 1 + Len(result.data) <= MaxWork
                 /\ nreq' = nreq + 1
                 /\ nentries' = nentries + Len(result.data)
                 /\ media' = media \cup WrittenToMedia(nreq', result.data)
                 /\ bucket' = bucket \cup WrittenToBucket(nreq', result.data)
                 /\ pc' = [pc EXCEPT ![s] = "api_generate_commit"]
                 /\ local' = [local EXCEPT ![s] =
                        [op |-> "api_generate", req |-> req, id |-> nreq',
                         user_id |-> session[s],
                         new_images |-> NewImages(session[s], body.prompt, nreq',
                                                  result.data, 1),
                         stats |-> StatsOf(session[s])]]
                 /\ last' = Response("api_generate", s, 0, "saved", req,
                                     [id |-> nreq', data |-> result.data], <<Answer(reply)>>)
                 /\ recorded' = GenerateImageRecorded(reply)
                 /\ UNCHANGED <<cfg, users, user_stats, images, session, cli,
                                credentials, committed>>

\* The flush of the stats object: a row found by the query is updated where
\* its attributes changed (UPDATE ... SET of the values computed in memory from
\* the row as it was read, WHERE id = the row's), a new one is inserted.
FlushStats(l) ==
    LET written == RecordGeneration(l.stats, l.user_id, Len(l.new_images))
    IN  IF l.stats = {} THEN user_stats \cup {written}
        ELSE {IF r.user_id = l.user_id
              THEN [r EXCEPT !.total_generations = written.total_generations,
                             !.total_images = IF Len(l.new_images) # 0
                                              THEN written.total_images ELSE @,
                             !.last_generation = written.last_generation]
              ELSE r : r \in user_stats}

\* What db.session.commit() leaves in the tables: the Image rows and the stats
\* row of the request together, or (unique violation, database failure) the
\* tables as they were.
CommitGenerationImagesFirst(l, ok) ==
    LET refused == ~ok \/ (l.stats = {} /\ StatsUniqueViolation(l.user_id))
    IN  [ok |-> ~refused,
         images |-> images \cup Range(l.new_images),
         user_stats |-> IF refused THEN user_stats ELSE FlushStats(l)]
CommitGeneration(l, ok) ==
    LET refused == ~ok \/ (l.stats = {} /\ StatsUniqueViolation(l.user_id))
    IN  IF refused
        THEN [ok |-> FALSE, images |-> images, user_stats |-> user_stats]
        ELSE [ok |-> TRUE, images |-> images \cup Range(l.new_images),
              user_stats |-> FlushStats(l)]

\* From the update of the stats object to the response.
api_generate_commit(s, ok) ==
    /\ pc[s] = "api_generate_commit"
    /\ LET l == local[s]
           c == CommitGeneration(l, ok)
       IN  /\ images' = c.images
           /\ user_stats' = c.user_stats
           /\ IF c.ok
              THEN /\ committed' = [committed EXCEPT ![l.user_id] =
                          [generations |-> @.generations + 1,
                           images |-> @.images + Len(l.new_images)]]
                   /\ last' = Response("api_generate", s, 200, "success", l.req,
                          [id |-> l.id,
                           images |-> [i \in 1..Len(l.new_images) |-> ToDict(l.new_images[i])]],
                          <<>>)
              ELSE /\ committed' = committed
                   /\ last' = Response("api_generate", s, 500, "Server error", l.req,
                                       [id |-> l.id, images |-> <<>>], <<>>)
    /\ Finish(s)
    /\ recorded' = <<>>
    /\ UNCHANGED <<cfg, users, media, bucket, session, cli, nreq, nentries, credentials>>

\* -------------------------------------------------------------- create-admin
\* The CLI command: the user row (is_admin) is committed, then its stats row.
\* An exception ends the command.
create_admin(username, email, password, ok) ==
    /\ cli = 0
    /\ \E salt \in Salts :
       LET row == UserRow(NextUserId, username, email,
                          GeneratePasswordHash(salt, password), TRUE)
       IN  IF ok /\ ~UserUniqueViolation(row)
           THEN /\ users' = users \cup {row}
                /\ credentials' = credentials \cup {<<username, password>>}
                /\ cli' = row.id
                /\ last' = Response("create_admin", "cli", 0, "add stats", None, None, <<>>)
           ELSE /\ UNCHANGED <<users, credentials, cli>>
                /\ last' = Response("create_admin", "cli", 1, "exception", None, None, <<>>)
    /\ recorded' = <<>>
    /\ UNCHANGED <<cfg, user_stats, images, media, bucket, session, pc, local,
                   nreq, nentries, committed>>

create_admin_stats(ok) ==
    /\ cli # 0
    /\ IF ok /\ ~StatsUniqueViolation(cli)
       THEN /\ user_stats' = user_stats \cup {StatsRow(cli, 0, 0, "NULL")}
            /\ last' = Response("create_admin", "cli", 0, "created", None, None, <<>>)
       ELSE /\ user_stats' = user_stats
            /\ last' = Response("create_admin", "cli", 1, "exception", None, None, <<>>)
    /\ cli' = 0
    /\ recorded' = <<>>
    /\ UNCHANGED <<cfg, users, images, media, bucket, session, pc, local, nreq, nentries,
                   credentials, committed>>

\* ------------------------------------------------------------- specification
Init ==
    /\ cfg \in Configs
    /\ users = {}
    /\ user_stats = {}
    /\ images = {}
    /\ media = {}
    /\ bucket = {}
    /\ session = [s \in Sessions |-> Anonymous]
    /\ pc = [s \in Sessions |-> "idle"]
    /\ local = [s \in Sessions |-> NoLocal]
    /\ cli = 0
    /\ nreq = 0
    /\ nentries = 0
    /\ last = Response("start", "cli", 0, "start", None, None, <<>>)
    /\ recorded = <<>>
    /\ credentials = {}
    /\ committed = [u \in 0..Cardinality(Usernames) |->
                       [generations |-> 0, images |-> 0]]

\* The forms and bodies the clients send.  A form is <<username, email,
\* password>>; a field left out arrives as Empty.
EmailOf(username) == IF username = "alice" THEN "alice@x.com" ELSE "bob@x.com"
OwnForms == {<<u, EmailOf(u), "pw123">> : u \in Usernames}
AllForms == (Usernames \X Emails \X {"pw123"})
            \cup {<<"bob", "bob@x.com", "hunter2">>}
            \cup {<<Empty, "alice@x.com", "pw123">>, <<"alice", Empty, "pw123">>,
                  <<"alice", "alice@x.com", Empty>>}
OwnLogins == {<<u, "pw123">> : u \in Usernames}
AllLogins == (Usernames \X (Passwords \cup {Empty})) \cup {<<Empty, "pw123">>}
Nexts == {Empty, "gallery"}
MediaNames == {Filename(1, 1)}
NoReply == Reply(TRUE, 0, {}, <<>>)

\* The steps of the handlers that finish a request in flight.
Continue(s) ==
    \/ \E ok \in BOOLEAN : register_commit_user(s, ok)
    \/ \E ok \in BOOLEAN : register_commit_stats(s, ok)
    \/ \E ok \in BOOLEAN : api_generate_commit(s, ok)

Generation(s) ==
    \/ \E b \in {b \in Bodies : b.prompt = Empty} : api_generate(s, b, NoReply)
    \/ \E b \in {b \in Bodies : b.prompt # Empty},
          r \in Replies(MaxWork - (nreq + nentries + 1)) : api_generate(s, b, r)

Views(s) ==
    \/ index(s)
    \/ dashboard(s)
    \/ generate(s)
    \/ gallery(s)
    \/ \E listed \in BOOLEAN : api_models(s, listed)
    \/ api_user_stats(s)
    \/ \E f \in MediaNames : serve_media(s, f)
    \/ api_storage_info(s)

\* Generation and its storage under every configuration, one request at a
\* time: each user registers and logs in with their own form, from one client.
Next ==
    \E s \in {"s1"} :
        \/ \E f \in OwnForms : register(s, "POST", f[1], f[2], f[3])
        \/ \E f \in OwnLogins : login(s, "POST", f[1], f[2], Empty)
        \/ logout(s)
        \/ Generation(s)
        \/ Continue(s)

Spec == Init /\ [][Next]_vars

\* The start of a deployment that stores under MEDIA_FOLDER (USE_S3 false).
InitLocalStorage == Init /\ ~cfg.USE_S3

\* Accounts: two clients whose requests interleave, every form, and the
\* create-admin command.
Cli ==
    \/ \E f \in OwnForms, ok \in BOOLEAN : create_admin(f[1], f[2], f[3], ok)
    \/ \E ok \in BOOLEAN : create_admin_stats(ok)

NextAuth ==
    \/ \E s \in Sessions :
        \/ register(s, "GET", Empty, Empty, Empty)
        \/ \E f \in AllForms : register(s, "POST", f[1], f[2], f[3])
        \/ \E ok \in BOOLEAN : register_commit_user(s, ok)
        \/ \E ok \in BOOLEAN : register_commit_stats(s, ok)
        \/ login(s, "GET", Empty, Empty, Empty)
        \/ \E f \in AllLogins, n \in Nexts : login(s, "POST", f[1], f[2], n)
        \/ logout(s)
        \/ admin(s)
    \/ Cli

SpecAuth == InitLocalStorage /\ [][NextAuth]_vars

\* Access: every endpoint, asked by an anonymous and by a logged-in client.
NextAccess ==
    \/ \E s \in Sessions :
        \/ \E f \in {<<"alice", "alice@x.com", "pw123">>} :
              register(s, "POST", f[1], f[2], f[3])
        \/ \E f \in {<<"alice", "pw123">>}, n \in Nexts : login(s, "POST", f[1], f[2], n)
        \/ logout(s)
        \/ admin(s)
        \/ Views(s)
        \/ \E b \in Bodies, r \in Replies(0) : api_generate(s, b, r)
        \/ Continue(s)

SpecAccess == InitLocalStorage /\ [][NextAccess]_vars

\* Concurrency: alice is logged in on two clients, whose generation requests
\* interleave at their database steps.
NextConcurrent ==
    \E s \in Sessions :
        \/ \E f \in {<<"alice", "alice@x.com", "pw123">>} :
              register(s, "POST", f[1], f[2], f[3])
        \/ \E f \in {<<"alice", "pw123">>} : login(s, "POST", f[1], f[2], Empty)
        \/ Generation(s)
        \/ Continue(s)

SpecConcurrent == InitLocalStorage /\ [][NextConcurrent]_vars

\* =================================================================== claims
ImagesOf(user_id) == {i \in images : i.user_id = user_id}
UserIds == {u.id : u \in users}

\* C1: for every user, after N committed submit-generation requests that saved
\* k_1..k_N images, the stats the user reads are total_generations = N and
\* total_images = k_1 + ... + k_N (the images actually saved, which are the
\* user's Image rows), also when a request saved nothing and when the first
\* request found no stats row.
C1_StatsCountCommittedRequests ==
    \A uid \in UserIds :
        /\ StatsJson(uid).total_generations = committed[uid].generations
        /\ StatsJson(uid).total_images = committed[uid].images
        /\ StatsJson(uid).total_images = Cardinality(ImagesOf(uid))

\* Two requests of one user are committed, one that saved an image and then
\* one that saved nothing.
C1_Witness ==
    \E uid \in UserIds :
        /\ committed[uid].generations = 2
        /\ committed[uid].images = 1
        /\ StatsJson(uid).total_generations = 2
        /\ last.op = "api_generate" /\ last.status = 200 /\ last.body.images = <<>>

\* C2: a request whose gateway call fails (the call raises, or the status is
\* not 200) is answered 500 at once and leaves the images and user_stats
\* tables (and users) as they were.
C2_GatewayFailureChangesNothing ==
    [][ (last'.op = "api_generate" /\ last'.gateway \in {<<"raised">>, <<"500">>})
        => /\ last'.status = 500
           /\ pc'[last'.s] = "idle"
           /\ UNCHANGED <<users, user_stats, images>> ]_vars

\* The gateway answers 500 to a user who already has images and counted
\* generations.
C2_Witness ==
    /\ last.op = "api_generate"
    /\ last.gateway = <<"500">>
    /\ last.status = 500
    /\ ImagesOf(session[last.s]) # {}
    /\ StatsJson(session[last.s]).total_generations > 0

\* The Image rows in the tables that request id made.
ImagesOfRequest(table, id) == {i \in table : i.filename[2] = id}

\* C3: the Image inserts and the stats update of one request are all or
\* nothing.  While the request runs none of its rows is visible; the step that
\* ends it either answers 500 and leaves the tables as they were, or answers
\* 200 with every Image row of the request and its stats update visible.
C3_CommitIsAllOrNothing ==
    [][ \A s \in Sessions :
          /\ pc'[s] = "api_generate_commit"
             => ImagesOfRequest(images', local'[s].id) = {}
          /\ (pc[s] = "api_generate_commit" /\ pc'[s] = "idle")
             => LET l == local[s] IN
                \/ /\ last'.status = 500
                   /\ UNCHANGED <<users, user_stats, images>>
                \/ /\ last'.status = 200
                   /\ images' = images \cup Range(l.new_images)
                   /\ ImagesOfRequest(images', l.id) = Range(l.new_images)
                   /\ \E r \in user_stats' : /\ r.user_id = l.user_id
                                             /\ r \notin user_stats ]_vars

\* A commit failed after the request had stored an image: the bytes are in
\* storage, no row of the request is in the tables.
C3_Witness ==
    /\ last.op = "api_generate"
    /\ last.kind = "Server error"
    /\ last.body.id > 0
    /\ Filename(last.body.id, 1) \in media \/ S3Key(Filename(last.body.id, 1)) \in bucket
    /\ ImagesOfRequest(images, last.body.id) = {}

\* C4: every committed User has exactly one UserStats row in every database
\* state in which no registration is still running, whatever failed inside
\* register (stated for the users register creates).
C4_EveryUserHasStats ==
    (\A s \in Sessions : pc[s] = "idle")
    => \A u \in users : ~u.is_admin => Cardinality(StatsOf(u.id)) = 1

\* A register step that answers the client without having created the account.
RegisterRejected(resp) ==
    /\ resp.op = "register"
    /\ resp.kind \in {"Username already exists", "Email already registered",
                      "All fields are required"}

\* C5: at most one User row per username and per email, however register
\* requests interleave; a complete form whose username (or, the username being
\* new, whose email) is already present is answered with that duplicate error;
\* and a rejected registration leaves users and user_stats as they were.
C5_DuplicateRegistrationRejected ==
    [][ /\ \A u, v \in users' :
              (u.username = v.username \/ u.email = v.email) => u = v
        /\ (last'.op = "register" /\ last'.req.method = "POST"
            /\ pc[last'.s] = "idle" /\ ~IsAuthenticated(last'.s)
            /\ last'.kind # "All fields are required")
           => /\ UsersByUsername(last'.req.username) # {}
                 => last'.kind = "Username already exists"
              /\ (UsersByUsername(last'.req.username) = {}
                  /\ UsersByEmail(last'.req.email) # {})
                 => last'.kind = "Email already registered"
        /\ RegisterRejected(last') => UNCHANGED <<users, user_stats>>
        /\ (last'.op = "register" /\ last'.kind = "An error occurred"
            /\ pc[last'.s] = "register_user") => UNCHANGED <<users, user_stats>>
      ]_vars

\* bob's form is refused for its email, which alice registered.
C5_Witness ==
    /\ last.op = "register"
    /\ last.kind = "Email already registered"
    /\ last.req.username = "bob"
    /\ UsersByUsername("bob") = {}
    /\ Cardinality(users) = 1

\* C6: a login form sent by an anonymous client authenticates it if and only
\* if the username is registered and the password is the one that user
\* registered with, and then as that user; otherwise the client stays
\* anonymous.
C6_LoginIffRegisteredCredentials ==
    [][ (last'.op = "login" /\ last'.req.method = "POST"
         /\ ~IsAuthenticated(last'.s))
        => LET s == last'.s
               given == <<last'.req.username, last'.req.password>>
           IN  /\ session'[s] # Anonymous <=> given \in credentials
               /\ session'[s] # Anonymous
                  => \E u \in users : /\ u.id = session'[s]
                                      /\ u.username = last'.req.username
               /\ session'[s] = Anonymous => last'.status = 200 ]_vars

\* bob, who registered with hunter2 while alice registered with pw123, is
\* logged in with hunter2.
C6_Witness ==
    /\ last.op = "login"
    /\ last.status = 302
    /\ last.req.username = "bob"
    /\ last.req.password = "hunter2"
    /\ \E u \in users : u.id = session[last.s] /\ u.username = "bob"
    /\ Cardinality(users) = 2

\* The upload of an entry's bytes to object storage fails: put_object raises,
\* or the client or the bucket name is not configured.
UploadFails(entry) ==
    ~cfg.s3_client \/ cfg.S3_BUCKET_NAME = Empty \/ entry.put = "raise"

\* C7: with USE_S3 true, an entry whose bytes were resolved and whose upload
\* to object storage failed is written under MEDIA_FOLDER, gets the URL
\* /media/{filename} and an Image object (the local write itself succeeding).
C7_UploadFailureFallsBackToLocal ==
    (last.op = "api_generate" /\ last.kind = "saved" /\ cfg.USE_S3)
    => \A i \in 1..Len(last.body.data) :
          LET e == last.body.data[i]
              f == Filename(last.body.id, i)
          IN  (e.shape \in {"url", "b64_json"} /\ e.fetch = "ok"
               /\ UploadFails(e) /\ e.disk = "ok")
              => /\ f \in media
                 /\ \E img \in Range(local[last.s].new_images) :
                       img.filename = f /\ ToDict(img).url[1] = "/media/"

\* C8: an authenticated POST /api/generate whose prompt is missing or empty is
\* answered 400, without a call to the gateway and without a change to the
\* tables.
C8_EmptyPromptIs400 ==
    [][ (last'.op = "api_generate" /\ IsAuthenticated(last'.s)
         /\ pc[last'.s] = "idle" /\ last'.req.body.prompt = Empty)
        => /\ last'.status = 400
           /\ last'.gateway = <<>>
           /\ UNCHANGED <<users, user_stats, images>> ]_vars

\* The endpoints that ask for a login.
LoginRequiredEndpoints ==
    {"logout", "dashboard", "generate", "gallery", "admin", "api_models",
     "api_generate", "api_user_stats", "serve_media", "api_storage_info"}

\* C9: an anonymous request to a login-required endpoint is redirected to the
\* login screen with the requested path as next; the handler does not run: no
\* call to the gateway, no write to the tables or to storage, no request left
\* in flight, the client still anonymous.
C9_AnonymousIsRedirectedToLogin ==
    [][ (last'.op \in LoginRequiredEndpoints /\ ~IsAuthenticated(last'.s))
        => /\ last'.status = 302
           /\ last'.kind = "login_required"
           /\ last'.body.next = last'.op
           /\ last'.gateway = <<>>
           /\ UNCHANGED <<users, user_stats, images, media, bucket, session,
                          pc, local, nreq, nentries>> ]_vars

\* An anonymous client posts a prompt to /api/generate while another client is
\* logged in and has a committed generation.
C9_Witness ==
    /\ last.op = "api_generate"
    /\ last.kind = "login_required"
    /\ last.req.body.prompt # Empty
    /\ ~IsAuthenticated(last.s)
    /\ \E uid \in UserIds : StatsJson(uid).total_generations > 0

\* C10: the admin view is answered only to a client logged in as a user with
\* is_admin; a logged-in user without it is redirected to the dashboard with
\* the access-denied notice.
C10_AdminViewOnlyForAdmins ==
    last.op = "admin"
    => /\ last.kind = "admin.html"
          => \E u \in users : u.id = session[last.s] /\ u.is_admin
       /\ (IsAuthenticated(last.s)
           /\ \E u \in users : u.id = session[last.s] /\ ~u.is_admin)
          => last.status = 302 /\ last.kind = "Access denied"

\* A user who is not an admin asks for /admin while an admin account exists.
C10_Witness ==
    /\ last.op = "admin"
    /\ last.kind = "Access denied"
    /\ \E u \in users : u.is_admin
    /\ \E u \in users : u.id = session[last.s] /\ ~u.is_admin

\* C11: a successful register and a successful login each move the session
\* from Anonymous to Authenticated: right after a registration that succeeds
\* the same session is authenticated, with no further login step.
C11_RegisterAuthenticatesSession ==
    (last.op = "register" /\ last.kind = "Registration successful")
    => IsAuthenticated(last.s)

\* C11 as amended: only a successful login moves the session from Anonymous to
\* Authenticated.  A successful register leaves the session Anonymous and
\* answers with a redirect to the login screen; the next request of that
\* session to a login-required endpoint is redirected to login; a login form
\* with the registered credentials then authenticates it, and an authenticated
\* session is not redirected to login.
C11_OnlyLoginAuthenticatesSession ==
    [][ /\ (last'.op = "register" /\ last'.kind = "Registration successful")
           => /\ session'[last'.s] = Anonymous
              /\ last'.status = 302
              /\ \E p \in Passwords : <<last'.req.username, p>> \in credentials'
        /\ (last.op = "register" /\ last.kind = "Registration successful"
            /\ last'.s = last.s /\ last'.op \in LoginRequiredEndpoints)
           => last'.kind = "login_required"
        /\ (last'.op = "login" /\ last'.req.method = "POST"
            /\ ~IsAuthenticated(last'.s)
            /\ <<last'.req.username, last'.req.password>> \in credentials)
           => session'[last'.s] # Anonymous
        /\ (last'.op \in LoginRequiredEndpoints /\ IsAuthenticated(last'.s))
           => last'.kind # "login_required"
        /\ \A s \in Sessions :
              (session[s] = Anonymous /\ session'[s] # Anonymous)
              => last'.op = "login" /\ last'.s = s ]_vars

\* alice's registration has just succeeded and her client is still anonymous.
C11_Witness ==
    /\ last.op = "register"
    /\ last.kind = "Registration successful"
    /\ last.req.username = "alice"
    /\ session[last.s] = Anonymous
    /\ pc[last.s] = "idle"
    /\ UsersByUsername("alice") # {}

\* The bytes of entry i of request id are in storage under the entry's
\* filename, under MEDIA_FOLDER or in the bucket.
Persisted(id, i, in_media, in_bucket) ==
    Filename(id, i) \in in_media \/ S3Key(Filename(id, i)) \in in_bucket

\* C12: a request makes an Image record for an entry if and only if the entry
\* has the url or the b64_json shape and its bytes were resolved and persisted;
\* the other entries make no record and do not fail the request (it goes on to
\* its commit).  The images list of the 200 response has exactly one
\* descriptor per Image row the request committed, and its length is the
\* amount added to total_images.
C12_OneImageRecordPerPersistedEntry ==
    [][ /\ (last'.op = "api_generate" /\ last'.kind = "saved")
           => LET s == last'.s
                  id == last'.body.id
                  data == last'.body.data
                  made == local'[s].new_images
              IN  /\ pc'[s] = "api_generate_commit"
                  /\ \A i \in 1..Len(data) :
                        (\E k \in 1..Len(made) : made[k].filename = Filename(id, i))
                        <=> /\ data[i].shape \in {"url", "b64_json"}
                            /\ data[i].fetch = "ok"
                            /\ Persisted(id, i, media', bucket')
                  /\ \A k \in 1..Len(made) :
                        /\ \E i \in 1..Len(data) : made[k].filename = Filename(id, i)
                        /\ \A j \in 1..Len(made) :
                              made[j].filename = made[k].filename => j = k
        /\ \A s \in Sessions :
              (pc[s] = "api_generate_commit" /\ pc'[s] = "idle" /\ last'.status = 200)
              => LET id == local[s].id
                     uid == local[s].user_id
                     listed == last'.body.images
                     rows == ImagesOfRequest(images', id)
                     before == StatsJson(uid).total_images
                 IN  /\ rows = images' \ images
                     /\ Len(listed) = Cardinality(rows)
                     /\ \A r \in rows :
                           Cardinality({k \in 1..Len(listed) : listed[k] = ToDict(r)}) = 1
                     /\ \E r \in user_stats' :
                           /\ r.user_id = uid
                           /\ r.total_images = before + Len(listed) ]_vars

\* A request given two entries, the first of neither shape and the second
\* saved, is committed: its response lists one image.
C12_Witness ==
    /\ last.op = "api_generate"
    /\ last.status = 200
    /\ nreq = 1
    /\ nentries = 2
    /\ Len(last.body.images) = 1
    /\ last.body.images[1].filename = Filename(1, 2)
    /\ Cardinality(ImagesOfRequest(images, 1)) = 1

\* The latency records among the calls made to the metrics emitter.
Latencies(calls) == {k \in 1..Len(calls) : calls[k].name = "APIResponseTime"}

\* C13: every invocation of generate_image records the latency metric
\* (APIResponseTime) exactly once, whatever the outcome: the API answers 200,
\* it answers another status, or the HTTP call raises.
C13_LatencyRecordedOncePerCall ==
    (last.op = "api_generate" /\ last.gateway # <<>>)
    => /\ Len(last.gateway) = 1
       /\ last.gateway[1] \in {"200", "500", "raised"}
       /\ Cardinality(Latencies(recorded)) = 1

\* C14: every committed Image row satisfies the storage-mode invariant.  With
\* USE_S3 true, s3_key and cloudfront_url are populated and cloudfront_url is
\* the public CDN or bucket URL of the key images/{filename}; with USE_S3
\* false both are absent and the url of the image is /media/{filename}.  Rows
\* made through the local fallback are no exception.
C14_StorageModeInvariant ==
    \A img \in images :
        IF cfg.USE_S3
        THEN /\ img.s3_key # None
             /\ img.cloudfront_url # None
             /\ img.s3_key = S3Key(img.filename)
             /\ img.cloudfront_url = GetCloudfrontUrl(S3Key(img.filename))
        ELSE /\ img.s3_key = None
             /\ img.cloudfront_url = None
             /\ ToDict(img).url = MediaUrl(img.filename)

\* C15: when two submit-generation requests of one user are handled
\* concurrently and both commit, no update is lost: once no request is waiting
\* for its commit, total_generations is the number of requests committed and
\* total_images is the number of images they saved, which is the number of
\* Image rows the user owns.
C15_NoLostUpdate ==
    (\A s \in Sessions : pc[s] # "api_generate_commit")
    => \A uid \in UserIds :
          LET stats == StatsJson(uid) IN
          /\ stats.total_generations = committed[uid].generations
          /\ stats.total_images = committed[uid].images
          /\ stats.total_images = Cardinality(ImagesOf(uid))

====
